---------------------------- MODULE Spec2Model ----------------------------
(***************************************************************************)
(* react-navplus: the prefetch scheduler of a NavPlus link (usePrefetch,   *)
(* the pointer handlers of NavPlus that drive it) and the prefetch         *)
(* dispatcher executePrefetch.                                             *)
(*                                                                         *)
(* Three specifications share the variables:                               *)
(*   Spec      one mounted NavPlus link: renders, pointer events, the      *)
(*             prefetch timer, unmount.                                    *)
(*   FairSpec  the same link under the event loop's scheduling: a timer    *)
(*             whose delay elapsed fires unless it was cleared.            *)
(*   ExecSpec  one direct call of executePrefetch on arbitrary arguments.  *)
(*                                                                         *)
(* setIsPrefetched(true) in the timer callback is taken as committed       *)
(* (re-rendered) before the next event is handled.                         *)
(***************************************************************************)
EXTENDS Integers, Sequences, FiniteSets, TLC

\* ------------------------------------------------------------------ bounds

\* Number of setTimeout calls one link instance makes in a behaviour.
MaxTimers == 2

\* ------------------------------------------------------------- value sets

\* Link targets; "https://" has no host, so the URL constructor rejects it.
LinkTargets == {"/dashboard", "/products"}
ExecTargets == LinkTargets \cup {"https://cdn.example.com/app", "https://"}

WindowOrigin == "http://localhost"

\* RouterType, and one value outside the type ("other").
RouterTypes == {"react-router", "tanstack-router", "wouter", "custom", "other"}

\* A router context is modelled by the set of capabilities it carries;
\* the empty set stands for undefined.
CtxUndefined == {}
CtxRouter == {"router.prefetch"}
RouterContexts == {CtxUndefined, CtxRouter}

\* customPrefetch argument: absent, or a caller-supplied callback.
CustomPrefetchValues == {"undefined", "cb"}

\* The environment of one executePrefetch call:
\*   globalRouter  window.TanStackRouter.router.prefetch exists
\*   domFault      index of the DOM operation (createElement / appendChild,
\*                 in program order) that throws; 0 when none does
\*   capThrows     the invoked prefetch capability or callback throws
Envs == [globalRouter : BOOLEAN, domFault : 0..4, capThrows : BOOLEAN]

\* ----------------------------------------------------- objects and spread

EmptyObject == [k \in {} |-> FALSE]

\* {...a, ...b}
Spread(a, b) ==
    [k \in (DOMAIN a) \cup (DOMAIN b) |-> IF k \in DOMAIN b THEN b[k] ELSE a[k]]

\* ------------------------------------------------------ utils/prefetch.ts

defaultPrefetchOptions ==
    [enabled |-> TRUE, delay |-> 200, routerType |-> "react-router"]

\* The prefetch prop: a boolean, an options object or undefined.
PrefetchBool(b) == [type |-> "boolean", value |-> b]
PrefetchObj(o) == [type |-> "object", fields |-> o]
PrefetchUndefined == [type |-> "undefined"]

\* Variant: the options are merged into the defaults object itself
\* (Object.assign(defaultPrefetchOptions, ...)) instead of into a copy.
normalizeCall_assign(defaults, prefetch) ==
    LET merged ==
            IF prefetch.type = "boolean"
            THEN Spread(defaults, [enabled |-> prefetch.value])
            ELSE IF prefetch.type = "object"
                 THEN Spread(defaults, prefetch.fields)
                 ELSE Spread(defaults, EmptyObject)
    IN [result |-> merged, defaults |-> merged]

\* One call of normalizePrefetchOptions against the module-level defaults
\* object: the object it returns and the defaults object after the call.
\* Object spread copies into a fresh object literal and assigns to nothing.
normalizeCall(defaults, prefetch) ==
    [result |->
        IF prefetch.type = "boolean"
        THEN Spread(defaults, [enabled |-> prefetch.value])
        ELSE IF prefetch.type = "object"
             THEN Spread(defaults, prefetch.fields)
             ELSE Spread(defaults, EmptyObject),
     defaults |-> defaults]

normalizePrefetchOptions(prefetch) ==
    normalizeCall(defaultPrefetchOptions, prefetch).result

\* new URL(url, window.location.origin): whether it parses, and its origin.
UrlParses(url) == url # "https://"

UrlOrigin(url) ==
    IF url = "https://cdn.example.com/app" THEN "https://cdn.example.com"
    ELSE WindowOrigin

\* Side effects of a dispatch, in program order.
PrefetchHint(url) ==
    [kind |-> "hint", rel |-> "prefetch", href |-> url, as |-> "document"]

PreconnectHint(origin) ==
    [kind |-> "hint", rel |-> "preconnect", href |-> origin, as |-> ""]

CapabilityCall(which, url) ==
    [kind |-> which, rel |-> "", href |-> url, as |-> ""]

ConsoleWarn ==
    [kind |-> "console.warn", rel |-> "", href |-> "", as |-> ""]

\* Outcome of a block of statements: completed or threw, the value returned
\* (meaningful when it returned early), the effects performed before that.
Block(threw, returned, effects) ==
    [threw |-> threw, returned |-> returned, effects |-> effects]

\* One <link rel=prefetch>: createElement is DOM operation number `first`,
\* appendChild is number first + 1.
SingleHint(url, env, first) ==
    IF env.domFault \in {first, first + 1}
    THEN Block(TRUE, FALSE, <<>>)
    ELSE Block(FALSE, FALSE, <<PrefetchHint(url)>>)

\* Variant: the preconnect hint is created but never appended.
prefetchReactRouter_noPreconnect(url, env) ==
    LET h == SingleHint(url, env, 1) IN
    IF h.threw THEN h
    ELSE IF env.domFault = 3 \/ ~UrlParses(url)
         THEN Block(TRUE, FALSE, h.effects)
         ELSE Block(FALSE, FALSE, h.effects)

prefetchReactRouter(url, env) ==
    LET h == SingleHint(url, env, 1) IN
    IF h.threw THEN h
    ELSE IF env.domFault = 3 \/ ~UrlParses(url) \/ env.domFault = 4
         THEN Block(TRUE, FALSE, h.effects)
         ELSE Block(FALSE, FALSE, h.effects \o <<PreconnectHint(UrlOrigin(url))>>)

\* Variant: the global router is preferred to the one of the router context.
prefetchTanStack_globalFirst(url, routerContext, env) ==
    IF env.globalRouter
    THEN Block(env.capThrows, FALSE,
               <<CapabilityCall("window.TanStackRouter.router.prefetch", url)>>)
    ELSE IF "router.prefetch" \in routerContext
         THEN Block(env.capThrows, FALSE,
                    <<CapabilityCall("routerContext.router.prefetch", url)>>)
         ELSE Block(FALSE, TRUE, <<ConsoleWarn>>)

prefetchTanStack(url, routerContext, env) ==
    IF "router.prefetch" \in routerContext
    THEN Block(env.capThrows, FALSE,
               <<CapabilityCall("routerContext.router.prefetch", url)>>)
    ELSE IF env.globalRouter
         THEN Block(env.capThrows, FALSE,
                    <<CapabilityCall("window.TanStackRouter.router.prefetch", url)>>)
         ELSE Block(FALSE, TRUE, <<ConsoleWarn>>)

prefetchWouter(url, env) == SingleHint(url, env, 1)

\* Variant: every strategy without a native prefetch shares the two-hint
\* implementation of 'react-router'.
StrategySwitch_allPreconnect(url, routerType, routerContext, env) ==
    CASE routerType = "tanstack-router" -> prefetchTanStack(url, routerContext, env)
      [] OTHER -> prefetchReactRouter(url, env)

\* The switch inside the try block.
StrategySwitch(url, routerType, routerContext, env) ==
    CASE routerType = "react-router" -> prefetchReactRouter(url, env)
      [] routerType = "tanstack-router" -> prefetchTanStack(url, routerContext, env)
      [] routerType = "wouter" -> prefetchWouter(url, env)
      [] OTHER -> SingleHint(url, env, 1)

\* Result of a call: the boolean returned, or an exception leaving the call.
Result(ret, threw, effects) ==
    [ret |-> ret, threw |-> threw, effects |-> effects]

\* Variant: the custom callback is called inside the try block.
executePrefetch_customInTry(url, routerType, isExternal, routerContext, customPrefetch, env) ==
    IF isExternal THEN Result(FALSE, FALSE, <<>>)
    ELSE IF routerType = "custom" /\ customPrefetch # "undefined"
    THEN Result(~env.capThrows, FALSE,
                <<CapabilityCall("customPrefetch", url)>>)
    ELSE LET b == StrategySwitch(url, routerType, routerContext, env) IN
         IF b.threw THEN Result(FALSE, FALSE, b.effects)
         ELSE IF b.returned THEN Result(FALSE, FALSE, b.effects)
         ELSE Result(TRUE, FALSE, b.effects)

\* Variant: no catch clause, an exception of the switch leaves the call.
executePrefetch_noCatch(url, routerType, isExternal, routerContext, customPrefetch, env) ==
    IF isExternal THEN Result(FALSE, FALSE, <<>>)
    ELSE IF routerType = "custom" /\ customPrefetch # "undefined"
    THEN Result(~env.capThrows, env.capThrows,
                <<CapabilityCall("customPrefetch", url)>>)
    ELSE LET b == StrategySwitch(url, routerType, routerContext, env) IN
         IF b.threw THEN Result(FALSE, TRUE, b.effects)
         ELSE IF b.returned THEN Result(FALSE, FALSE, b.effects)
         ELSE Result(TRUE, FALSE, b.effects)

\* Variant: the custom callback is tried before the external check.
executePrefetch_customFirst(url, routerType, isExternal, routerContext, customPrefetch, env) ==
    IF routerType = "custom" /\ customPrefetch # "undefined"
    THEN Result(~env.capThrows, env.capThrows,
                <<CapabilityCall("customPrefetch", url)>>)
    ELSE IF isExternal THEN Result(FALSE, FALSE, <<>>)
    ELSE LET b == StrategySwitch(url, routerType, routerContext, env) IN
         IF b.threw THEN Result(FALSE, FALSE, b.effects)
         ELSE IF b.returned THEN Result(FALSE, FALSE, b.effects)
         ELSE Result(TRUE, FALSE, b.effects)

executePrefetch(url, routerType, isExternal, routerContext, customPrefetch, env) ==
    IF isExternal THEN Result(FALSE, FALSE, <<>>)
    ELSE IF routerType = "custom" /\ customPrefetch # "undefined"
    THEN Result(~env.capThrows, env.capThrows,
                <<CapabilityCall("customPrefetch", url)>>)
    ELSE LET b == StrategySwitch(url, routerType, routerContext, env) IN
         IF b.threw THEN Result(FALSE, FALSE, b.effects)
         ELSE IF b.returned THEN Result(FALSE, FALSE, b.effects)
         ELSE Result(TRUE, FALSE, b.effects)


\* --------------------------------------------------------------- state

VARIABLES
    props,               \* props of the current render of the NavPlus link
    mounted,             \* the link instance is mounted
    isPrefetched,        \* useState(false) of usePrefetch
    prefetchTimeoutRef,  \* prefetchTimeoutRef.current: a timer id, 0 for null
    timers,              \* every timer setTimeout created, indexed by its id
    cancelled,           \* ids of the timers that were pending when cancelPrefetch() ran
    effects,             \* hints registered and capabilities called, in order
    lastEvent,           \* the event handled last and the functions it invoked
    navigationTimeoutRef,\* navigationTimeoutRef.current: a timer id, 0 for null
    navTimers,           \* every navigation timer setTimeout created, by id
    navCalls,            \* the calls of the navigate function, in order
    scheduled,           \* work React has scheduled and not run yet: "render"
                         \* (the render that commits setIsPrefetched(true)),
                         \* "cleanup" (the effect cleanups of the removed link)
    execPc,              \* "idle" | "ready" | "done": a direct executePrefetch call
    execIn,              \* its arguments and environment
    execOut,             \* its result
    fnPc,                \* "idle" | "ready" | "done": a direct call of a utility
    fnIn,                \* its arguments (objects passed by reference included)
    fnOut,               \* its result
    sharedDefaults       \* the module-level defaultPrefetchOptions object

vars == <<props, mounted, isPrefetched, prefetchTimeoutRef, timers, cancelled,
          effects, lastEvent, navigationTimeoutRef, navTimers, navCalls,
          scheduled, execPc, execIn, execOut, fnPc, fnIn, fnOut, sharedDefaults>>

navVars == <<navigationTimeoutRef, navTimers, navCalls>>

linkVars == <<props, mounted, isPrefetched, prefetchTimeoutRef, timers,
              cancelled, lastEvent, navVars, scheduled>>

execVars == <<execPc, execIn, execOut>>

fnVars == <<fnPc, fnIn, fnOut, sharedDefaults>>

\* ------------------------------------------------------- NavPlus props

LinkPrefetchProps ==
    { PrefetchBool(FALSE),
      PrefetchBool(TRUE),
      PrefetchObj([routerType |-> "tanstack-router"]),
      PrefetchObj([routerType |-> "custom", customPrefetch |-> "cb"]) }

\* onMouseEnter / onMouseLeave: whether the caller passes a handler of its
\* own (it then arrives in restProps).
PropsSet ==
    [ to : LinkTargets,
      prefetch : LinkPrefetchProps,
      isExternal : BOOLEAN,
      redirection : BOOLEAN,
      disabled : BOOLEAN,
      routerContext : RouterContexts,
      onMouseEnter : BOOLEAN,
      onMouseLeave : BOOLEAN,
      triggerEvent : {"click"},
      navigationDelay : {0},
      navigate : {"undefined"},
      onClick : {"undefined"},
      replace : {FALSE} ]

\* triggerEvent; navigationDelay in ms (0 also stands for an omitted delay:
\* both fail `navigationDelay && navigationDelay > 0`); the navigate prop
\* and the onClick prop: absent, a plain handler, or one that calls
\* e.preventDefault().
TriggerEvents == {"click", "hover"}

NavigationDelays == {0, 300}

NavigateProps == {"undefined", "props.navigate"}

OnClickProps == {"undefined", "handler", "preventsDefault"}

PropValues(f) ==
    CASE f = "to" -> LinkTargets
      [] f = "prefetch" -> LinkPrefetchProps
      [] f = "routerContext" -> RouterContexts
      [] f = "triggerEvent" -> TriggerEvents
      [] f = "navigationDelay" -> NavigationDelays
      [] f = "navigate" -> NavigateProps
      [] f = "onClick" -> OnClickProps
      [] OTHER -> BOOLEAN

\* The handlers the caller passed, as they arrive in ...restProps.
restProps(p) ==
    [k \in {f \in {"onMouseEnter", "onMouseLeave"} : p[f]} |-> "props." \o k]

\* commonProps: the library's handlers first, ...restProps spread last.
\* onClick is destructured from the props, so it is not in restProps.
commonProps(p) ==
    Spread([onClick |-> IF p.triggerEvent = "click" THEN "handleClick" ELSE "undefined",
            onMouseEnter |-> "handleMouseEnter",
            onMouseLeave |-> "handleMouseLeave"],
           restProps(p))

\* ------------------------------------------------------------ usePrefetch

DefaultDelay == 200

\* Variant: no destructuring default, an omitted prop reaches
\* normalizePrefetchOptions as undefined.
prefetchOptions_noDefault(p) == normalizePrefetchOptions(p.prefetch)

\* prefetchOptions of a render: an omitted prefetch prop takes the
\* destructuring default `prefetch = false` before it is normalised.
prefetchOptions(p) ==
    normalizePrefetchOptions(IF p.prefetch.type = "undefined"
                             THEN PrefetchBool(FALSE)
                             ELSE p.prefetch)

\* What the timer callback created by handlePrefetch closes over.
Closure(p) ==
    LET o == prefetchOptions(p) IN
    [ to |-> p.to,
      routerType |-> IF "routerType" \in DOMAIN o /\ o.routerType # ""
                     THEN o.routerType ELSE "react-router",
      isExternal |-> p.isExternal,
      routerContext |-> p.routerContext,
      customPrefetch |-> IF "customPrefetch" \in DOMAIN o
                         THEN o.customPrefetch ELSE "undefined",
      delay |-> IF "delay" \in DOMAIN o /\ o.delay # 0
                THEN o.delay ELSE DefaultDelay ]

NoClosure ==
    [ to |-> "", routerType |-> "", isExternal |-> FALSE,
      routerContext |-> CtxUndefined, customPrefetch |-> "undefined", delay |-> 0 ]

TimerIds == DOMAIN timers

Pending == {i \in TimerIds : timers[i].state = "pending"}

Fired == {i \in TimerIds : timers[i].state = "fired"}

\* clearTimeout(id): a pending timer is dropped with its callback; the id of
\* a timer that fired or was cleared before is ignored.
clearTimeout(ts, id) ==
    [i \in DOMAIN ts |->
        IF i = id /\ ts[i].state = "pending"
        THEN [ts[i] EXCEPT !.state = "cleared", !.closure = NoClosure]
        ELSE ts[i]]

\* if (prefetchTimeoutRef.current) clearTimeout(prefetchTimeoutRef.current)
clearRef(ts, ref) == IF ref # 0 THEN clearTimeout(ts, ref) ELSE ts

\* setTimeout(callback, delay): a new pending timer; its id is the next one.
setTimeout(ts, closure) ==
    Append(ts, [ state |-> "pending", closure |-> closure, result |-> "none",
                 invoked |-> 0,
                 epoch |-> Cardinality({i \in DOMAIN ts : ts[i].state = "fired"}) ])

\* The guard of handlePrefetch (the early return).
PrefetchGuard(p, prefetched) ==
    \/ ~prefetchOptions(p).enabled
    \/ p.isExternal
    \/ ~p.redirection
    \/ p.disabled
    \/ prefetched

\* Variant: the previous timer is not cleared before a new one is armed.
handlePrefetch_noClear(p, prefetched, ts, ref) ==
    IF PrefetchGuard(p, prefetched)
    THEN <<ts, ref>>
    ELSE <<setTimeout(ts, Closure(p)), Len(ts) + 1>>

\* Variant: the previous timer is cleared before the guard is evaluated.
handlePrefetch_clearFirst(p, prefetched, ts, ref) ==
    LET cleared == clearRef(ts, ref) IN
    IF PrefetchGuard(p, prefetched)
    THEN <<cleared, ref>>
    ELSE <<setTimeout(cleared, Closure(p)), Len(ts) + 1>>

\* handlePrefetch(): the new values of <<timers, prefetchTimeoutRef>>.
handlePrefetch(p, prefetched, ts, ref) ==
    IF PrefetchGuard(p, prefetched)
    THEN <<ts, ref>>
    ELSE LET cleared == clearRef(ts, ref) IN
         <<setTimeout(cleared, Closure(p)), Len(ts) + 1>>

\* Variant: cancelling leaves the timer armed.
cancelPrefetch_keepsTimer(ts, ref) == ts

\* cancelPrefetch(): the new value of timers.
cancelPrefetch(ts, ref) == clearRef(ts, ref)

\* The cleanup of the unmount effect: the new value of timers.
unmountCleanup(ts, ref) == clearRef(ts, ref)

\* Variant: the callback returns without dispatching.
TimerCallback_skipsDispatch(c, env, prefetched) ==
    [ invoked |-> 0, result |-> "none", effects |-> <<>>,
      isPrefetched |-> prefetched ]

\* Variant: the callback records success whatever executePrefetch returned.
TimerCallback_alwaysRecords(c, env, prefetched) ==
    LET r == executePrefetch(c.to, c.routerType, c.isExternal, c.routerContext,
                             c.customPrefetch, env) IN
    [ invoked |-> 1,
      result |-> IF r.threw THEN "threw" ELSE IF r.ret THEN "true" ELSE "false",
      effects |-> r.effects,
      isPrefetched |-> ~r.threw ]

\* The timer callback: executePrefetch on the captured values, then
\* setIsPrefetched(true) on success.  An exception leaving executePrefetch
\* leaves the callback before the state is set.
TimerCallback(c, env, prefetched) ==
    LET r == executePrefetch(c.to, c.routerType, c.isExternal, c.routerContext,
                             c.customPrefetch, env) IN
    [ invoked |-> 1,
      result |-> IF r.threw THEN "threw" ELSE IF r.ret THEN "true" ELSE "false",
      effects |-> r.effects,
      isPrefetched |-> IF ~r.threw /\ r.ret THEN TRUE ELSE prefetched ]

\* ----------------------------------------------------- NavPlus navigation

\* Bound on the calls of navigate a behaviour records.
MaxCalls == 2

\* navigateProp || routerContext?.navigate
ResolveNavigate(p) ==
    IF p.navigate # "undefined" THEN p.navigate
    ELSE IF "navigate" \in p.routerContext THEN "routerContext.navigate"
    ELSE "undefined"

\* What the callback of a navigation timer closes over.
NavClosure(navigate, targetUrl, shouldReplace) ==
    [navigate |-> navigate, targetUrl |-> targetUrl, replace |-> shouldReplace]

NoNavClosure == NavClosure("undefined", "", FALSE)

\* One call navigate(targetUrl, {replace}); `timer` is the id of the timer
\* whose callback made it, 0 for a call made by a handler itself.
NavCall(c, timer) ==
    [navigate |-> c.navigate, to |-> c.targetUrl, replace |-> c.replace,
     timer |-> timer]

\* The navigation state of a link: its timers, the ref and the calls made.
NavState(ts, ref, calls) == [timers |-> ts, ref |-> ref, calls |-> calls]

NavPending == {i \in DOMAIN navTimers : navTimers[i].state = "pending"}

NavFired == {i \in DOMAIN navTimers : navTimers[i].state = "fired"}

\* clearTimeout on a navigation timer.
clearNavTimeout(ts, id) ==
    [i \in DOMAIN ts |->
        IF i = id /\ ts[i].state = "pending"
        THEN [ts[i] EXCEPT !.state = "cleared", !.closure = NoNavClosure]
        ELSE ts[i]]

\* if (navigationTimeoutRef.current) clearTimeout(navigationTimeoutRef.current)
clearNavRef(ts, ref) == IF ref # 0 THEN clearNavTimeout(ts, ref) ELSE ts

\* Every timer armed so far belongs to a request that a later one replaced
\* (a record of the history, not of the program).
Supersede(ts) == [i \in DOMAIN ts |-> [ts[i] EXCEPT !.superseded = TRUE]]

\* The pointer left while these timers were pending (history).
MarkLeft(ts) ==
    [i \in DOMAIN ts |->
        IF ts[i].state = "pending" THEN [ts[i] EXCEPT !.left = TRUE] ELSE ts[i]]

\* setTimeout(() => navigate(targetUrl, {replace}), navigationDelay)
setNavTimeout(ts, closure) ==
    Append(ts, [state |-> "pending", closure |-> closure,
                superseded |-> FALSE, left |-> FALSE])

\* navigateWithDelay(targetUrl, shouldReplace)
navigateWithDelay(p, nav, targetUrl, shouldReplace) ==
    LET navigate == ResolveNavigate(p)
        c == NavClosure(navigate, targetUrl, shouldReplace)
        cleared == Supersede(clearNavRef(nav.timers, nav.ref))
    IN IF navigate = "undefined" THEN nav
       ELSE IF p.navigationDelay > 0
            THEN NavState(setNavTimeout(cleared, c), Len(nav.timers) + 1, nav.calls)
            ELSE NavState(cleared, nav.ref, Append(nav.calls, NavCall(c, 0)))

\* What a handler did: the navigation state it leaves and the functions
\* it called.
Handled(nav, calls) == [nav |-> nav, calls |-> calls]

\* handleClick(e)
handleClick(p, nav) ==
    IF p.disabled
    THEN Handled(nav, {"handleClick", "e.preventDefault"})
    ELSE LET onClickCalls == IF p.onClick # "undefined" THEN {"props.onClick"} ELSE {}
             defaultPrevented == p.onClick = "preventsDefault"
         IN IF ~p.isExternal /\ p.redirection /\ ResolveNavigate(p) # "undefined"
                 /\ ~defaultPrevented
            THEN Handled(navigateWithDelay(p, nav, p.to, p.replace),
                         {"handleClick", "e.preventDefault", "navigateWithDelay"}
                             \cup onClickCalls)
            ELSE Handled(nav, {"handleClick"} \cup onClickCalls)

\* Variant: the hover navigation does not look at disabled.
hoverNavigation_ignoresDisabled(p, nav) ==
    IF p.triggerEvent = "hover" /\ p.redirection
          /\ ResolveNavigate(p) # "undefined"
    THEN Handled(navigateWithDelay(p, nav, p.to, p.replace),
                 {"e.preventDefault", "navigateWithDelay"})
    ELSE Handled(nav, {})

\* The hover navigation of handleMouseEnter(e), after handlePrefetch().
hoverNavigation(p, nav) ==
    IF p.triggerEvent = "hover" /\ ~p.disabled /\ p.redirection
          /\ ResolveNavigate(p) # "undefined"
    THEN Handled(navigateWithDelay(p, nav, p.to, p.replace),
                 {"e.preventDefault", "navigateWithDelay"})
    ELSE Handled(nav, {})

\* What handleMouseLeave(e) does to the navigation timers: nothing, it
\* calls cancelPrefetch() and the caller's onMouseLeave only.
leaveNavigation(ts, ref) == ts

\* The cleanup of NavPlus's unmount effect: the new value of navTimers.
navUnmountCleanup(ts, ref) == clearNavRef(ts, ref)

\* ------------------------------------------------------------- the link

Event(name, calls) == [name |-> name, calls |-> calls]

IdleCall ==
    [ url |-> "", routerType |-> "", isExternal |-> FALSE,
      routerContext |-> CtxUndefined, customPrefetch |-> "undefined",
      env |-> [globalRouter |-> FALSE, domFault |-> 0, capThrows |-> FALSE] ]

IdleResult == Result(FALSE, FALSE, <<>>)

\* No utility is being called; the defaults object is as the module
\* initialised it.
NoValue == [type |-> "none"]

NavIdle ==
    /\ navigationTimeoutRef = 0
    /\ navTimers = <<>>
    /\ navCalls = <<>>

FnIdle ==
    /\ fnPc = "idle"
    /\ fnIn = NoValue
    /\ fnOut = NoValue
    /\ sharedDefaults = defaultPrefetchOptions

\* The link right after its first render.  The target and the router
\* context of that render are fixed here; StaleSpec changes them between
\* renders and HoverSpec starts with either router context.
Init ==
    /\ props \in {p \in PropsSet : p.to = "/dashboard"
                                   /\ p.routerContext = CtxUndefined}
    /\ mounted = TRUE
    /\ isPrefetched = FALSE
    /\ prefetchTimeoutRef = 0
    /\ timers = <<>>
    /\ cancelled = {}
    /\ NavIdle
    /\ scheduled = {}
    /\ effects = <<>>
    /\ lastEvent = Event("mount", {})
    /\ execPc = "idle"
    /\ execIn = IdleCall
    /\ execOut = IdleResult
    /\ FnIdle

\* A render with one prop changed (any change of several props is a
\* sequence of these: a render by itself has no effect on the session).
\* `fields` are the props the caller changes between renders.
RerenderOf(fields) ==
    /\ mounted
    /\ \E f \in fields : \E v \in PropValues(f) :
          /\ v # props[f]
          /\ props' = [props EXCEPT ![f] = v]
    /\ lastEvent' = Event("render", {})
    /\ UNCHANGED <<mounted, isPrefetched, prefetchTimeoutRef, timers, cancelled,
                   effects, navVars, scheduled, execPc, execIn, execOut, fnVars>>

\* The props a caller of the scheduler's link changes from render to render
\* (isExternal, redirection and the handlers it passes are those of the
\* first render throughout).
SchedulerFields == {"prefetch", "disabled"}

Rerender == RerenderOf(SchedulerFields)

\* The pointer enters the rendered element: the onMouseEnter of commonProps
\* runs.  handleMouseEnter calls handlePrefetch(), then navigates when the
\* link is triggered by hover, and then calls the caller's
\* restProps.onMouseEnter when there is one.
PointerEnter ==
    /\ mounted
    /\ IF commonProps(props).onMouseEnter = "handleMouseEnter"
       THEN LET next == handlePrefetch(props, isPrefetched, timers, prefetchTimeoutRef)
                h == hoverNavigation(props,
                        NavState(navTimers, navigationTimeoutRef, navCalls))
            IN
            /\ Len(next[1]) <= MaxTimers
            /\ Len(h.nav.timers) <= MaxTimers
            /\ Len(h.nav.calls) <= MaxCalls
            /\ timers' = next[1]
            /\ prefetchTimeoutRef' = next[2]
            /\ navTimers' = h.nav.timers
            /\ navigationTimeoutRef' = h.nav.ref
            /\ navCalls' = h.nav.calls
            /\ lastEvent' = Event("pointerenter",
                                  {"handleMouseEnter", "handlePrefetch"}
                                  \cup h.calls
                                  \cup (IF "onMouseEnter" \in DOMAIN restProps(props)
                                        THEN {"props.onMouseEnter"} ELSE {}))
       ELSE /\ lastEvent' = Event("pointerenter", {commonProps(props).onMouseEnter})
            /\ UNCHANGED <<timers, prefetchTimeoutRef, navVars>>
    /\ UNCHANGED <<props, mounted, isPrefetched, cancelled, effects,
                   scheduled, execPc, execIn, execOut, fnVars>>

\* A click on the rendered element: the onClick of commonProps runs, which
\* is handleClick when the link is triggered by click and nothing of the
\* link otherwise.
Click ==
    /\ mounted
    /\ IF commonProps(props).onClick = "handleClick"
       THEN LET h == handleClick(props,
                        NavState(navTimers, navigationTimeoutRef, navCalls))
            IN
            /\ Len(h.nav.timers) <= MaxTimers
            /\ Len(h.nav.calls) <= MaxCalls
            /\ navTimers' = h.nav.timers
            /\ navigationTimeoutRef' = h.nav.ref
            /\ navCalls' = h.nav.calls
            /\ lastEvent' = Event("click", h.calls)
       ELSE /\ lastEvent' = Event("click", {})
            /\ UNCHANGED navVars
    /\ UNCHANGED <<props, mounted, isPrefetched, prefetchTimeoutRef, timers,
                   cancelled, effects, scheduled, execPc, execIn, execOut, fnVars>>

\* The delay of a pending navigation timer elapses: its callback calls the
\* navigate function it closed over.
NavTimerFire ==
    \E id \in NavPending :
        /\ Len(navCalls) < MaxCalls
        /\ navCalls' = Append(navCalls, NavCall(navTimers[id].closure, id))
        /\ navTimers' = [navTimers EXCEPT ![id] =
                            [@ EXCEPT !.state = "fired", !.closure = NoNavClosure]]
        /\ lastEvent' = Event("navtimer", {"navigate"})
        /\ UNCHANGED <<props, mounted, isPrefetched, prefetchTimeoutRef, timers,
                       cancelled, effects, navigationTimeoutRef,
                       scheduled, execPc, execIn, execOut, fnVars>>

\* The pointer leaves the rendered element: the onMouseLeave of commonProps
\* runs.  handleMouseLeave calls cancelPrefetch() and then the caller's
\* restProps.onMouseLeave when there is one.
PointerLeave ==
    /\ mounted
    /\ IF commonProps(props).onMouseLeave = "handleMouseLeave"
       THEN /\ timers' = cancelPrefetch(timers, prefetchTimeoutRef)
            /\ cancelled' = cancelled \cup Pending
            /\ navTimers' = MarkLeft(leaveNavigation(navTimers, navigationTimeoutRef))
            /\ lastEvent' = Event("pointerleave",
                                  {"handleMouseLeave", "cancelPrefetch"}
                                  \cup (IF "onMouseLeave" \in DOMAIN restProps(props)
                                        THEN {"props.onMouseLeave"} ELSE {}))
       ELSE /\ lastEvent' = Event("pointerleave", {commonProps(props).onMouseLeave})
            /\ navTimers' = MarkLeft(navTimers)
            /\ UNCHANGED <<timers, cancelled>>
    /\ UNCHANGED <<props, mounted, isPrefetched, prefetchTimeoutRef, effects,
                   navigationTimeoutRef, navCalls, scheduled, execPc, execIn, execOut, fnVars>>

\* Variant: the callback reads the values of the current render.
CapturedBy_currentRender(t, p) == Closure(p)

\* The values the callback of timer t reads when it runs: those of the
\* render whose handlePrefetch created it.  The arrow function passed to
\* setTimeout closes over them; p, the props of the current render, is not
\* read.
CapturedBy(t, p) == t.closure

\* The delay of a pending timer elapses and its callback runs in one of the
\* environments envs: executePrefetch registers its hints and calls its
\* capabilities, and on success the callback calls setIsPrefetched(true).
\* The callback does not look at whether the link is still mounted.  React
\* renders the link with the new state within the same task, or schedules
\* that render for a later task (until then the handlers of the element
\* are those of the last render, with isPrefetched = false); a state update
\* of a removed link is dropped.
TimerFireIn(envs) ==
    \E id \in Pending : \E env \in envs : \E deferred \in BOOLEAN :
        LET r == TimerCallback(CapturedBy(timers[id], props), env, isPrefetched)
            updates == mounted /\ r.isPrefetched /\ ~isPrefetched
        IN
        /\ timers' = [timers EXCEPT ![id] =
                         [@ EXCEPT !.state = "fired", !.closure = NoClosure,
                                   !.result = r.result,
                                   !.invoked = @ + r.invoked]]
        /\ effects' = effects \o r.effects
        /\ IF updates
           THEN IF deferred
                THEN /\ isPrefetched' = isPrefetched
                     /\ scheduled' = scheduled \cup {"render"}
                ELSE /\ isPrefetched' = TRUE
                     /\ scheduled' = scheduled \ {"render"}
           ELSE /\ ~deferred
                /\ UNCHANGED <<isPrefetched, scheduled>>
        /\ lastEvent' = Event("timer", {"executePrefetch"})
        /\ UNCHANGED <<props, mounted, prefetchTimeoutRef, cancelled,
                       navVars, execPc, execIn, execOut, fnVars>>

TimerFire == TimerFireIn(Envs)

\* React renders the link with the state update it had scheduled.
CommitRender ==
    /\ mounted
    /\ "render" \in scheduled
    /\ isPrefetched' = TRUE
    /\ scheduled' = scheduled \ {"render"}
    /\ lastEvent' = Event("render", {})
    /\ UNCHANGED <<props, mounted, prefetchTimeoutRef, timers, cancelled,
                   effects, navVars, execPc, execIn, execOut, fnVars>>

\* The link instance is unmounted: React removes it and runs the cleanups
\* of its two effects (usePrefetch's and NavPlus's), within the removing
\* commit or in a later task.  A scheduled render of the link is dropped.
Unmount ==
    /\ mounted
    /\ mounted' = FALSE
    /\ \E deferred \in BOOLEAN :
          IF deferred
          THEN /\ scheduled' = {"cleanup"}
               /\ lastEvent' = Event("unmount", {})
               /\ UNCHANGED <<timers, navTimers>>
          ELSE /\ scheduled' = {}
               /\ timers' = unmountCleanup(timers, prefetchTimeoutRef)
               /\ navTimers' = navUnmountCleanup(navTimers, navigationTimeoutRef)
               /\ lastEvent' = Event("unmount", {"cleanup"})
    /\ UNCHANGED <<props, isPrefetched, prefetchTimeoutRef, cancelled, effects,
                   navigationTimeoutRef, navCalls, execPc, execIn, execOut, fnVars>>

\* The effect cleanups React had scheduled at the removal run.
Cleanup ==
    /\ "cleanup" \in scheduled
    /\ scheduled' = scheduled \ {"cleanup"}
    /\ timers' = unmountCleanup(timers, prefetchTimeoutRef)
    /\ navTimers' = navUnmountCleanup(navTimers, navigationTimeoutRef)
    /\ lastEvent' = Event("cleanup", {"cleanup"})
    /\ UNCHANGED <<props, mounted, isPrefetched, prefetchTimeoutRef, cancelled,
                   effects, navigationTimeoutRef, navCalls,
                   execPc, execIn, execOut, fnVars>>

Next ==
    \/ Rerender \/ PointerEnter \/ PointerLeave \/ TimerFire \/ CommitRender
    \/ Unmount \/ Cleanup

Spec == Init /\ [][Next]_vars

\* The link under the scheduling of the event loop: a timer fires once its
\* delay has elapsed, unless it was cleared.  The caller enables and
\* disables the link between renders and passes no handlers of its own.
FairFields == {"disabled"}

FairInit ==
    /\ Init
    /\ props.to = "/dashboard"
    /\ props.routerContext = CtxUndefined
    /\ ~props.isExternal
    /\ props.redirection
    /\ ~props.onMouseEnter
    /\ ~props.onMouseLeave

FairNext ==
    \/ RerenderOf(FairFields) \/ PointerEnter \/ PointerLeave \/ TimerFire
    \/ CommitRender \/ Unmount \/ Cleanup

FairSpec == FairInit /\ [][FairNext]_vars /\ WF_vars(TimerFire)

\* The link of a caller who leaves the prefetch prop out, passes true, or
\* passes an options object without `enabled` (with a delay, with the delay
\* 0, with a strategy), and keeps that choice over
\* the renders; is the link external, redirecting, disabled varies.
HoverPrefetchProps ==
    { PrefetchUndefined,
      PrefetchBool(TRUE),
      PrefetchObj([delay |-> 500]),
      PrefetchObj([delay |-> 0]),
      PrefetchObj([routerType |-> "tanstack-router"]) }

HoverFields == {"isExternal", "redirection", "disabled"}

HoverInit ==
    /\ props \in [ to : {"/dashboard"},
                   prefetch : HoverPrefetchProps,
                   isExternal : BOOLEAN,
                   redirection : BOOLEAN,
                   disabled : BOOLEAN,
                   routerContext : RouterContexts,
                   onMouseEnter : {FALSE},
                   onMouseLeave : {FALSE},
                   triggerEvent : {"click"},
                   navigationDelay : {0},
                   navigate : {"undefined"},
                   onClick : {"undefined"},
                   replace : {FALSE} ]
    /\ mounted = TRUE
    /\ isPrefetched = FALSE
    /\ prefetchTimeoutRef = 0
    /\ timers = <<>>
    /\ cancelled = {}
    /\ NavIdle
    /\ scheduled = {}
    /\ effects = <<>>
    /\ lastEvent = Event("mount", {})
    /\ execPc = "idle"
    /\ execIn = IdleCall
    /\ execOut = IdleResult
    /\ FnIdle

HoverNext ==
    \/ RerenderOf(HoverFields) \/ PointerEnter \/ PointerLeave \/ TimerFire
    \/ CommitRender \/ Unmount \/ Cleanup

HoverSpec == HoverInit /\ [][HoverNext]_vars

\* The link of a caller who supplies a navigate function: clicks, hovers
\* and navigation timers.  The caller changes disabled, the navigation
\* delay and the trigger between renders; prefetching is off.
NavFields == {"disabled", "navigationDelay", "triggerEvent"}

NavInit ==
    /\ props \in [ to : {"/dashboard"},
                   prefetch : {PrefetchBool(FALSE)},
                   isExternal : BOOLEAN,
                   redirection : BOOLEAN,
                   disabled : BOOLEAN,
                   routerContext : {CtxUndefined},
                   onMouseEnter : {FALSE},
                   onMouseLeave : {FALSE},
                   triggerEvent : TriggerEvents,
                   navigationDelay : NavigationDelays,
                   navigate : NavigateProps,
                   onClick : OnClickProps,
                   replace : {FALSE} ]
    /\ mounted = TRUE
    /\ isPrefetched = FALSE
    /\ prefetchTimeoutRef = 0
    /\ timers = <<>>
    /\ cancelled = {}
    /\ NavIdle
    /\ scheduled = {}
    /\ effects = <<>>
    /\ lastEvent = Event("mount", {})
    /\ execPc = "idle"
    /\ execIn = IdleCall
    /\ execOut = IdleResult
    /\ FnIdle

NavNext ==
    \/ RerenderOf(NavFields) \/ Click \/ PointerEnter \/ PointerLeave
    \/ NavTimerFire \/ Unmount \/ Cleanup

NavSpec == NavInit /\ [][NavNext]_vars

\* ------------------------------------------- direct calls of executePrefetch

ExecInputs ==
    [ url : ExecTargets, routerType : RouterTypes, isExternal : BOOLEAN,
      routerContext : RouterContexts, customPrefetch : CustomPrefetchValues,
      env : Envs ]

ExecInit ==
    /\ props = CHOOSE p \in PropsSet : TRUE
    /\ mounted = FALSE
    /\ isPrefetched = FALSE
    /\ prefetchTimeoutRef = 0
    /\ timers = <<>>
    /\ cancelled = {}
    /\ NavIdle
    /\ scheduled = {}
    /\ effects \in {<<>>, <<PrefetchHint("/dashboard")>>}
    /\ lastEvent = Event("mount", {})
    /\ execPc = "ready"
    /\ execIn \in ExecInputs
    /\ execOut = IdleResult
    /\ FnIdle

ExecCall ==
    /\ execPc = "ready"
    /\ execOut' = executePrefetch(execIn.url, execIn.routerType, execIn.isExternal,
                                  execIn.routerContext, execIn.customPrefetch,
                                  execIn.env)
    /\ effects' = effects \o execOut'.effects
    /\ execPc' = "done"
    /\ UNCHANGED <<linkVars, execIn, fnVars>>

ExecNext == ExecCall

ExecSpec == ExecInit /\ [][ExecNext]_vars

\* ---------------------------------- direct calls of normalizePrefetchOptions

\* What a caller may write for one field of a PrefetchOptions object: the
\* field left out, or the field with one of its values.
OptionPart(k, values) == {EmptyObject} \cup {[f \in {k} |-> v] : v \in values}

\* Every options object: any subset of the fields, each with any value.
OptionObjects ==
    { Spread(Spread(Spread(e, d), r), c) :
        e \in OptionPart("enabled", BOOLEAN),
        d \in OptionPart("delay", {0, 500}),
        r \in OptionPart("routerType", {"wouter", "custom"}),
        c \in OptionPart("customPrefetch", {"cb"}) }

NormInputs ==
    {PrefetchBool(b) : b \in BOOLEAN}
        \cup {PrefetchObj(o) : o \in OptionObjects}
        \cup {PrefetchUndefined}

NormInit ==
    /\ props = CHOOSE p \in PropsSet : TRUE
    /\ mounted = FALSE
    /\ isPrefetched = FALSE
    /\ prefetchTimeoutRef = 0
    /\ timers = <<>>
    /\ cancelled = {}
    /\ NavIdle
    /\ scheduled = {}
    /\ effects = <<>>
    /\ lastEvent = Event("mount", {})
    /\ execPc = "idle"
    /\ execIn = IdleCall
    /\ execOut = IdleResult
    /\ fnPc = "ready"
    /\ fnIn \in NormInputs
    /\ fnOut = NoValue
    /\ sharedDefaults = defaultPrefetchOptions

\* normalizePrefetchOptions(fnIn) runs; it reads the defaults object as the
\* calls before it left it.
NormCall ==
    /\ fnPc = "ready"
    /\ LET c == normalizeCall(sharedDefaults, fnIn) IN
          /\ fnOut' = c.result
          /\ sharedDefaults' = c.defaults
    /\ fnPc' = "done"
    /\ UNCHANGED <<linkVars, effects, execVars, fnIn>>

\* The caller passes the next prefetch prop.
NormArg ==
    /\ fnPc = "done"
    /\ fnIn' \in NormInputs
    /\ fnPc' = "ready"
    /\ UNCHANGED <<linkVars, effects, execVars, fnOut, sharedDefaults>>

NormNext == NormCall \/ NormArg

NormSpec == NormInit /\ [][NormNext]_vars

\* ------------------------------------------------------- utils/matchers.ts

\* Strings are sequences of characters; MaxLen bounds the paths and targets.
MaxLen == 3

Alphabet == {"/", "a"}

Strs == UNION {[1..n -> Alphabet] : n \in 0..MaxLen}

\* String.prototype.startsWith and String.prototype.includes.
startsWith(s, t) == Len(t) <= Len(s) /\ SubSeq(s, 1, Len(t)) = t

includes(s, t) ==
    \E i \in 0..Len(s) : i + Len(t) <= Len(s) /\ SubSeq(s, i + 1, i + Len(t)) = t

\* A RegExp object: a literal with optional ^ and $ anchors, its flags
\* ("" | "g" | "y") and its mutable lastIndex.  No pattern is `undefined`.
NoPattern == [type |-> "undefined"]

RegExp(lit, anchorStart, anchorEnd, flags, lastIndex) ==
    [type |-> "RegExp", lit |-> lit, anchorStart |-> anchorStart,
     anchorEnd |-> anchorEnd, flags |-> flags, lastIndex |-> lastIndex]

\* The pattern matches s with the match starting at index j.
MatchAt(re, s, j) ==
    /\ j + Len(re.lit) <= Len(s)
    /\ SubSeq(s, j + 1, j + Len(re.lit)) = re.lit
    /\ re.anchorStart => j = 0
    /\ re.anchorEnd => j + Len(re.lit) = Len(s)

\* RegExp.prototype.test: the result and lastIndex after the call.  Without
\* the g or y flag the search starts at 0 and lastIndex is left alone; with g
\* it starts at lastIndex, with y it is tried at lastIndex only; a match
\* moves lastIndex to its end, a failure resets it to 0.
RegExpTest(re, s) ==
    LET flagged == re.flags \in {"g", "y"}
        start == IF flagged THEN re.lastIndex ELSE 0
        cands == IF re.flags = "y" THEN {start} ELSE start..Len(s)
        hits == {j \in cands : j <= Len(s) /\ MatchAt(re, s, j)}
    IN IF hits = {}
       THEN [ret |-> FALSE, lastIndex |-> IF flagged THEN 0 ELSE re.lastIndex]
       ELSE LET j == CHOOSE h \in hits : \A k \in hits : h <= k IN
            [ret |-> TRUE,
             lastIndex |-> IF flagged THEN j + Len(re.lit) ELSE re.lastIndex]

\* lastIndex of the pattern argument, 0 when there is none.
LastIndexOf(pattern) == IF pattern.type = "RegExp" THEN pattern.lastIndex ELSE 0

\* What a matcher call yields: its boolean, whether it threw, and the
\* lastIndex it leaves in the pattern object.
MatchResult(ret, threw, lastIndex) ==
    [ret |-> ret, threw |-> threw, lastIndex |-> lastIndex]

\* The keys of the matchers Map, and matchers.get(mode)(pathname, url, pattern).
MatcherKeys == {"exact", "startsWith", "includes", "pattern"}

matchers(mode, pathname, url, pattern) ==
    CASE mode = "exact" ->
            MatchResult(pathname = url, FALSE, LastIndexOf(pattern))
      [] mode = "startsWith" ->
            MatchResult(startsWith(pathname, url), FALSE, LastIndexOf(pattern))
      [] mode = "includes" ->
            MatchResult(includes(pathname, url), FALSE, LastIndexOf(pattern))
      [] mode = "pattern" ->
            IF pattern.type = "RegExp"
            THEN LET t == RegExpTest(pattern, pathname) IN
                 MatchResult(t.ret, FALSE, t.lastIndex)
            ELSE MatchResult(FALSE, FALSE, 0)

\* Variant: an unknown mode falls back to 'exact'.
isActive_exactFallback(pathname, url, matchMode, matchPattern) ==
    LET mode == IF matchMode = "undefined" THEN "includes" ELSE matchMode
        key == IF mode \in MatcherKeys THEN mode ELSE "exact"
    IN matchers(key, pathname, url, matchPattern)

\* isActive: the parameter default, then matchers.get(matchMode) ||
\* matchers.get('includes').
isActive(pathname, url, matchMode, matchPattern) ==
    LET mode == IF matchMode = "undefined" THEN "includes" ELSE matchMode
        key == IF mode \in MatcherKeys THEN mode ELSE "includes"
    IN matchers(key, pathname, url, matchPattern)

\* ------------------------------------------------- direct calls of isActive

\* matchMode arguments: the four modes, omitted, and a value outside them.
MatchModes == MatcherKeys \cup {"undefined", "fuzzy"}

PatternLits == {s \in Strs : Len(s) \in {1, 2}}

\* Freshly created patterns (lastIndex 0).
Patterns ==
    {NoPattern} \cup
    {RegExp(lit, a, z, f, 0) :
        lit \in PatternLits, a \in BOOLEAN, z \in BOOLEAN, f \in {"", "g", "y"}}

\* Every path and target with every mode that ignores the pattern, and
\* every path with every pattern under mode 'pattern'.
MatchInputs ==
    [type : {"isActive"}, pathname : Strs, url : Strs,
     matchMode : MatchModes \ {"pattern"},
     matchPattern : {NoPattern, RegExp(<<"a">>, FALSE, FALSE, "g", 0)}]
    \cup
    [type : {"isActive"}, pathname : Strs, url : {<<>>, <<"/", "a">>},
     matchMode : {"pattern"}, matchPattern : Patterns]

MatchInit ==
    /\ props = CHOOSE p \in PropsSet : TRUE
    /\ mounted = FALSE
    /\ isPrefetched = FALSE
    /\ prefetchTimeoutRef = 0
    /\ timers = <<>>
    /\ cancelled = {}
    /\ NavIdle
    /\ scheduled = {}
    /\ effects = <<>>
    /\ lastEvent = Event("mount", {})
    /\ execPc = "idle"
    /\ execIn = IdleCall
    /\ execOut = IdleResult
    /\ fnPc = "ready"
    /\ fnIn \in MatchInputs
    /\ fnOut = NoValue
    /\ sharedDefaults = defaultPrefetchOptions

\* isActive(...) runs; test() leaves its lastIndex in the pattern object.
MatchCall ==
    /\ fnPc = "ready"
    /\ fnOut' = isActive(fnIn.pathname, fnIn.url, fnIn.matchMode, fnIn.matchPattern)
    /\ fnIn' = IF fnIn.matchPattern.type = "RegExp"
               THEN [fnIn EXCEPT !.matchPattern.lastIndex = fnOut'.lastIndex]
               ELSE fnIn
    /\ fnPc' = "done"
    /\ UNCHANGED <<linkVars, effects, execVars, sharedDefaults>>

\* The location changes and isActive is called again with the same target,
\* mode and pattern object.
MatchAgain ==
    /\ fnPc = "done"
    /\ \E p \in Strs : fnIn' = [fnIn EXCEPT !.pathname = p]
    /\ fnOut' = NoValue
    /\ fnPc' = "ready"
    /\ UNCHANGED <<linkVars, effects, execVars, sharedDefaults>>

MatchNext == MatchCall \/ MatchAgain

MatchSpec == MatchInit /\ [][MatchNext]_vars

\* --------------------------------------------- hooks/useIsActive.ts, NavPlus

\* An absent prop or field; a string; a location; a router context.
Undefined == [type |-> "undefined"]

Str(v) == [type |-> "string", value |-> v]

LocationObj(pathname) == [type |-> "object", pathname |-> pathname]

ContextObj(location, navigate) ==
    [type |-> "object", location |-> location, navigate |-> navigate]

\* Caller-supplied isActiveFunc predicates, by what they do with
\* (pathname, url).
Predicates == {"always", "never", "samePath", "throws"}

PredicateValue(fn, pathname, url) ==
    CASE fn = "always" -> TRUE
      [] fn = "never" -> FALSE
      [] fn = "samePath" -> pathname = url
      [] OTHER -> FALSE

\* One call made while the active state is evaluated.
MatcherCall(fn, pathname, url) == [fn |-> fn, pathname |-> pathname, url |-> url]

\* The outcome of an evaluation: the active state, whether an exception
\* left it, the calls it made, and lastIndex of the pattern afterwards.
ActiveResult(ret, threw, calls, lastIndex) ==
    [ret |-> ret, threw |-> threw, calls |-> calls, lastIndex |-> lastIndex]

\* isActiveWithCustomFn has no pattern: its lastIndex field is 0, and
\* useIsActive puts the untouched pattern's lastIndex in its place.
isActiveWithCustomFn(pathname, url, isActiveFunc) ==
    ActiveResult(PredicateValue(isActiveFunc, pathname, url),
                 isActiveFunc = "throws",
                 <<MatcherCall("isActiveFunc", pathname, url)>>, 0)

\* Variant: customActiveUrl is not looked at.
useIsActive_ignoresCustomUrl(to, options) ==
    IF options.location.type = "undefined" \/ options.location.pathname = <<>>
    THEN ActiveResult(FALSE, FALSE, <<>>, LastIndexOf(options.matchPattern))
    ELSE IF options.isActiveFunc # "undefined"
         THEN [isActiveWithCustomFn(options.location.pathname, to,
                                    options.isActiveFunc)
                  EXCEPT !.lastIndex = LastIndexOf(options.matchPattern)]
         ELSE LET r == isActive(options.location.pathname, to,
                                options.matchMode, options.matchPattern)
              IN ActiveResult(r.ret, r.threw,
                     <<MatcherCall("isActive", options.location.pathname, to)>>,
                     r.lastIndex)

\* Variant: no early return when the location is missing; the pathname is
\* then taken as the empty string.
useIsActive_noGuard(to, options) ==
    LET pathname == IF options.location.type = "undefined"
                    THEN <<>> ELSE options.location.pathname
        urlToMatch ==
            IF options.customActiveUrl.type = "string"
                  /\ options.customActiveUrl.value # <<>>
            THEN options.customActiveUrl.value
            ELSE to
    IN IF options.isActiveFunc # "undefined"
       THEN [isActiveWithCustomFn(pathname, urlToMatch, options.isActiveFunc)
                EXCEPT !.lastIndex = LastIndexOf(options.matchPattern)]
       ELSE LET r == isActive(pathname, urlToMatch,
                              options.matchMode, options.matchPattern)
            IN ActiveResult(r.ret, r.threw,
                   <<MatcherCall("isActive", pathname, urlToMatch)>>,
                   r.lastIndex)

\* useIsActive: the body of its useMemo.  The predicate branch does not
\* touch the pattern, whose lastIndex stays what it was.
useIsActive(to, options) ==
    IF options.location.type = "undefined" \/ options.location.pathname = <<>>
    THEN ActiveResult(FALSE, FALSE, <<>>, LastIndexOf(options.matchPattern))
    ELSE LET urlToMatch ==
                 IF options.customActiveUrl.type = "string"
                       /\ options.customActiveUrl.value # <<>>
                 THEN options.customActiveUrl.value
                 ELSE to
         IN IF options.isActiveFunc # "undefined"
            THEN [isActiveWithCustomFn(options.location.pathname, urlToMatch,
                                       options.isActiveFunc)
                     EXCEPT !.lastIndex = LastIndexOf(options.matchPattern)]
            ELSE LET r == isActive(options.location.pathname, urlToMatch,
                                   options.matchMode, options.matchPattern)
                 IN ActiveResult(r.ret, r.threw,
                        <<MatcherCall("isActive", options.location.pathname,
                                      urlToMatch)>>,
                        r.lastIndex)

\* a || b for objects, and routerContext?.location / ?.navigate.
OrElse(a, b) == IF a.type = "undefined" THEN b ELSE a

LocationOf(ctx) == IF ctx.type = "undefined" THEN Undefined ELSE ctx.location

NavigateOf(ctx) == IF ctx.type = "undefined" THEN "undefined" ELSE ctx.navigate

\* The location a NavPlus render hands to useIsActive.
ResolvedLocation(p, context) ==
    OrElse(p.location, LocationOf(OrElse(p.routerContext, context)))

\* What a render yields: whether an element is rendered, its active state
\* (data-active, activeClassName), the navigate function it will use, and
\* the evaluation that decided the active state.
RenderResult(rendered, active, navigate, eval) ==
    [rendered |-> rendered, active |-> active, navigate |-> navigate,
     eval |-> eval]

\* One render of NavPlus with props p under the provider's router context.
NavPlusRender(p, context) ==
    LET routerContext == OrElse(p.routerContext, context)
        navigate == IF p.navigate # "undefined" THEN p.navigate
                    ELSE NavigateOf(routerContext)
    IN IF p.to = <<>>
       THEN RenderResult(FALSE, FALSE, navigate,
                         ActiveResult(FALSE, FALSE, <<>>, LastIndexOf(p.matchPattern)))
       ELSE LET eval == useIsActive(p.to,
                            [location |-> OrElse(p.location, LocationOf(routerContext)),
                             matchMode |-> p.matchMode,
                             matchPattern |-> p.matchPattern,
                             customActiveUrl |-> p.customActiveUrl,
                             isActiveFunc |-> p.isActiveFunc])
            IN RenderResult(~eval.threw, eval.ret /\ ~eval.threw, navigate, eval)

\* One render of RouterNavLink inside (or outside) a React Router: it
\* builds a router context holding useNavigate()'s function, when that hook
\* does not throw, and passes it to NavPlus over any routerContext prop.
RouterNavLinkRender(p, context, router) ==
    LET routerContext ==
            IF router.type = "undefined"
            THEN ContextObj(Undefined, "undefined")
            ELSE ContextObj(Undefined, "useNavigate")
    IN NavPlusRender([p EXCEPT !.routerContext = routerContext], context)

\* ----------------------------------------------------- renders of a link

SampleTargets == {<<>>, <<"/">>, <<"/", "a">>}

SampleLocations == {Undefined, LocationObj(<<>>), LocationObj(<<"/", "a">>)}

SampleContexts ==
    {Undefined, ContextObj(Undefined, "undefined"),
     ContextObj(LocationObj(<<"/">>), "ctx.navigate"),
     ContextObj(LocationObj(<<"/", "a">>), "ctx.navigate")}

\* What React Router's hooks give: nothing outside a router, else the
\* router's location.
SampleRouters == {Undefined, LocationObj(<<"/">>), LocationObj(<<"/", "a">>)}

ActiveProps ==
    [to : SampleTargets,
     location : SampleLocations,
     navigate : {"undefined"},
     routerContext : SampleContexts,
     matchMode : {"exact", "pattern", "undefined"},
     matchPattern : {NoPattern, RegExp(<<"a">>, FALSE, TRUE, "", 0)},
     customActiveUrl : {Undefined, Str(<<>>), Str(<<"/">>)},
     isActiveFunc : {"undefined"} \cup Predicates]

\* RouterNavLink's props have no location and no navigate.
RouterNavLinkProps ==
    {p \in ActiveProps :
        /\ p.location = Undefined
        /\ p.routerContext \in {Undefined, ContextObj(LocationObj(<<"/", "a">>), "ctx.navigate")}}

ActiveInputs ==
    [type : {"render"}, component : {"NavPlus"}, props : ActiveProps,
     context : {Undefined, ContextObj(LocationObj(<<"/", "a">>), "ctx.navigate")},
     router : {Undefined}]
    \cup
    [type : {"render"}, component : {"RouterNavLink"}, props : RouterNavLinkProps,
     context : {Undefined, ContextObj(LocationObj(<<"/", "a">>), "ctx.navigate")},
     router : SampleRouters]

ActiveInit ==
    /\ props = CHOOSE p \in PropsSet : TRUE
    /\ mounted = FALSE
    /\ isPrefetched = FALSE
    /\ prefetchTimeoutRef = 0
    /\ timers = <<>>
    /\ cancelled = {}
    /\ NavIdle
    /\ scheduled = {}
    /\ effects = <<>>
    /\ lastEvent = Event("mount", {})
    /\ execPc = "idle"
    /\ execIn = IdleCall
    /\ execOut = IdleResult
    /\ fnPc = "ready"
    /\ fnIn \in ActiveInputs
    /\ fnOut = NoValue
    /\ sharedDefaults = defaultPrefetchOptions

RenderNavPlus ==
    /\ fnPc = "ready"
    /\ fnIn.component = "NavPlus"
    /\ fnOut' = NavPlusRender(fnIn.props, fnIn.context)
    /\ fnPc' = "done"
    /\ UNCHANGED <<linkVars, effects, execVars, fnIn, sharedDefaults>>

RenderRouterNavLink ==
    /\ fnPc = "ready"
    /\ fnIn.component = "RouterNavLink"
    /\ fnOut' = RouterNavLinkRender(fnIn.props, fnIn.context, fnIn.router)
    /\ fnPc' = "done"
    /\ UNCHANGED <<linkVars, effects, execVars, fnIn, sharedDefaults>>

ActiveNext == RenderNavPlus \/ RenderRouterNavLink

ActiveSpec == ActiveInit /\ [][ActiveNext]_vars

\* -------------------------------------------------- direct calls of cleanUrl

\* Variant: the slash is prepended without looking at the first character.
cleanUrl_alwaysPrepends(url) ==
    IF url.type = "undefined" \/ url.value = <<>>
    THEN <<"/">>
    ELSE <<"/">> \o url.value

\* cleanUrl(url): url is a string or missing.
cleanUrl(url) ==
    IF url.type = "undefined" \/ url.value = <<>>
    THEN <<"/">>
    ELSE IF startsWith(url.value, <<"/">>) THEN url.value ELSE <<"/">> \o url.value

\* An argument of cleanUrl; `fed` tells that it is the result of the call
\* before.
CleanInput(url, fed) == [type |-> "cleanUrl", url |-> url, fed |-> fed]

CleanUrls == {Undefined} \cup {Str(v) : v \in Strs}

CleanInit ==
    /\ props = CHOOSE p \in PropsSet : TRUE
    /\ mounted = FALSE
    /\ isPrefetched = FALSE
    /\ prefetchTimeoutRef = 0
    /\ timers = <<>>
    /\ cancelled = {}
    /\ NavIdle
    /\ scheduled = {}
    /\ effects = <<>>
    /\ lastEvent = Event("mount", {})
    /\ execPc = "idle"
    /\ execIn = IdleCall
    /\ execOut = IdleResult
    /\ fnPc = "ready"
    /\ fnIn \in {CleanInput(u, FALSE) : u \in CleanUrls}
    /\ fnOut = NoValue
    /\ sharedDefaults = defaultPrefetchOptions

CleanCall ==
    /\ fnPc = "ready"
    /\ fnOut' = cleanUrl(fnIn.url)
    /\ fnPc' = "done"
    /\ UNCHANGED <<linkVars, effects, execVars, fnIn, sharedDefaults>>

\* The caller cleans the result once more.
CleanFeed ==
    /\ fnPc = "done"
    /\ fnIn' = CleanInput(Str(fnOut), TRUE)
    /\ fnPc' = "ready"
    /\ UNCHANGED <<linkVars, effects, execVars, fnOut, sharedDefaults>>

\* The caller cleans another raw string.
CleanArg ==
    /\ fnPc = "done"
    /\ \E u \in CleanUrls : fnIn' = CleanInput(u, FALSE)
    /\ fnPc' = "ready"
    /\ UNCHANGED <<linkVars, effects, execVars, fnOut, sharedDefaults>>

CleanNext == CleanCall \/ CleanFeed \/ CleanArg

CleanSpec == CleanInit /\ [][CleanNext]_vars

\* ------------------------------------------- NavLinkProvider and its links

\* contextValue.prefetchDefaults of a NavLinkProvider given the
\* prefetchDefaults prop (an options object or undefined).
ProviderPrefetchDefaults(customPrefetchDefaults) ==
    IF customPrefetchDefaults.type = "object"
    THEN Spread(defaultPrefetchOptions, customPrefetchDefaults.fields)
    ELSE Spread(defaultPrefetchOptions, EmptyObject)

\* The prefetch options of a NavPlus link rendered under a context: NavPlus
\* reads context.routerContext only, and usePrefetch normalises the link's
\* own prefetch prop against the library defaults.
LinkPrefetchOptions(prefetch, context) ==
    prefetchOptions([prefetch |-> prefetch])

ProviderInputs ==
    [type : {"provider"},
     prefetchDefaults : {PrefetchUndefined} \cup {PrefetchObj(o) : o \in OptionObjects},
     prefetch : NormInputs]

ProviderInit ==
    /\ props = CHOOSE p \in PropsSet : TRUE
    /\ mounted = FALSE
    /\ isPrefetched = FALSE
    /\ prefetchTimeoutRef = 0
    /\ timers = <<>>
    /\ cancelled = {}
    /\ NavIdle
    /\ scheduled = {}
    /\ effects = <<>>
    /\ lastEvent = Event("mount", {})
    /\ execPc = "idle"
    /\ execIn = IdleCall
    /\ execOut = IdleResult
    /\ fnPc = "ready"
    /\ fnIn \in ProviderInputs
    /\ fnOut = NoValue
    /\ sharedDefaults = defaultPrefetchOptions

\* The provider renders, then the link beneath it.
ProviderRender ==
    /\ fnPc = "ready"
    /\ LET context == [prefetchDefaults |-> ProviderPrefetchDefaults(fnIn.prefetchDefaults)]
       IN fnOut' = [context |-> context,
                    options |-> LinkPrefetchOptions(fnIn.prefetch, context)]
    /\ fnPc' = "done"
    /\ UNCHANGED <<linkVars, effects, execVars, fnIn, sharedDefaults>>

ProviderNext == ProviderRender

ProviderSpec == ProviderInit /\ [][ProviderNext]_vars

\* ------------------------------------------ renders during a pending delay

\* The environments of these dispatches: the document accepts the hints or
\* fails at the first DOM operation; capabilities return, and there is no
\* window-level router.
DispatchEnvs ==
    {e \in Envs : e.domFault \in {0, 1} /\ ~e.globalRouter /\ ~e.capThrows}

\* The link of a caller who changes the target, the prefetch options and
\* the flags between renders, during a delay included.
StaleFields == {"to", "prefetch", "isExternal", "redirection", "disabled"}

StaleInit ==
    /\ props \in {p \in PropsSet : /\ p.to = "/dashboard"
                                   /\ ~p.onMouseEnter
                                   /\ ~p.onMouseLeave}
    /\ mounted = TRUE
    /\ isPrefetched = FALSE
    /\ prefetchTimeoutRef = 0
    /\ timers = <<>>
    /\ cancelled = {}
    /\ NavIdle
    /\ scheduled = {}
    /\ effects = <<>>
    /\ lastEvent = Event("mount", {})
    /\ execPc = "idle"
    /\ execIn = IdleCall
    /\ execOut = IdleResult
    /\ FnIdle

StaleNext ==
    \/ RerenderOf(StaleFields) \/ PointerEnter
    \/ TimerFireIn(DispatchEnvs) \/ CommitRender

StaleSpec == StaleInit /\ [][StaleNext]_vars


\* ------------------------------------------------------------ properties

\* Did the last event run handlePrefetch / cancelPrefetch?
CalledHandlePrefetch(e) == e.name = "pointerenter" /\ "handlePrefetch" \in e.calls

CalledCancelPrefetch(e) == e.name = "pointerleave" /\ "cancelPrefetch" \in e.calls

\* C1: a timer that was pending when cancelPrefetch() ran is invalidated for
\* good: it is never pending again and its callback (executePrefetch) is
\* never invoked, whatever pointer and timer events follow.
C1_CancelPreventsDispatch ==
    \A i \in cancelled :
        /\ i \in TimerIds
        /\ timers[i].state = "cleared"
        /\ timers[i].invoked = 0

\* C1 witness: a timer was cancelled while pending, and a timer armed after
\* it went on to fire.
C1_Witness ==
    \E i \in cancelled : \E j \in Fired : j > i

\* C2: at most one timer is pending, it is the one prefetchTimeoutRef holds,
\* and of all the timers armed between two dispatches (same epoch) at most
\* one ever dispatches.
C2_AtMostOnePending ==
    /\ Cardinality(Pending) <= 1
    /\ Pending \subseteq {prefetchTimeoutRef}
    /\ \A i, j \in Fired : i # j => timers[i].epoch # timers[j].epoch

\* C2 witness: handlePrefetch() ran twice before any timer fired; the first
\* timer was cleared by the second call and the second one fired.
C2_Witness ==
    /\ Len(timers) = 2
    /\ timers[1].state = "cleared"
    /\ 1 \notin cancelled
    /\ timers[2].state = "fired"
    /\ timers[2].epoch = 0

\* Some dispatch of the session has returned true.
Succeeded == \E i \in Fired : timers[i].result = "true"

\* C3: once executePrefetch has returned true, no step arms, clears or
\* fires a timer any more: every later handlePrefetch() is a no-op and no
\* second dispatch happens.
C3_NoRedispatch ==
    [][Succeeded =>
          /\ timers' = timers
          /\ prefetchTimeoutRef' = prefetchTimeoutRef
          /\ effects' = effects]_vars

\* C4: after the link is unmounted no prefetch timer is pending and no
\* timer callback runs: executePrefetch is not invoked and nothing is
\* dispatched.
C4_NoDispatchAfterUnmount ==
    /\ [](~mounted => Pending = {})
    /\ [][~mounted => (lastEvent'.name # "timer" /\ effects' = effects)]_vars

\* C5 (as claimed): every pointer-enter runs handlePrefetch() and every
\* pointer-leave runs cancelPrefetch(), and the caller's own handler runs as
\* well when one is passed.
C5_PointerEventsReachScheduler ==
    /\ lastEvent.name = "pointerenter" =>
          /\ "handlePrefetch" \in lastEvent.calls
          /\ props.onMouseEnter => "props.onMouseEnter" \in lastEvent.calls
    /\ lastEvent.name = "pointerleave" =>
          /\ "cancelPrefetch" \in lastEvent.calls
          /\ props.onMouseLeave => "props.onMouseLeave" \in lastEvent.calls

\* C6: under fairness of the timer, every armed timer is eventually either
\* cleared (by cancelPrefetch, unmount or a further handlePrefetch) or has
\* fired with executePrefetch invoked exactly once.
C6_ArmedTimerFiresOnce ==
    \A i \in 1..MaxTimers :
        (i \in TimerIds /\ timers[i].state = "pending")
            ~> (/\ i \in TimerIds
                /\ \/ timers[i].state = "cleared"
                   \/ (timers[i].state = "fired" /\ timers[i].invoked = 1))

\* C6 witness: a timer fired and dispatched once.
C6_Witness ==
    \E i \in Fired : timers[i].invoked = 1 /\ i \notin cancelled

\* C7: when prefetching is not enabled, or isExternal, or redirection is
\* false, or disabled, or isPrefetched, a handlePrefetch() call changes
\* neither the timers (none armed, a pending one untouched), nor the ref,
\* nor isPrefetched.
C7_GuardedCallChangesNothing ==
    [][(/\ CalledHandlePrefetch(lastEvent')
        /\ \/ ~normalizePrefetchOptions(props.prefetch).enabled
           \/ props.isExternal
           \/ ~props.redirection
           \/ props.disabled
           \/ isPrefetched)
       => /\ timers' = timers
          /\ prefetchTimeoutRef' = prefetchTimeoutRef
          /\ isPrefetched' = isPrefetched]_vars

\* C7 witness: handlePrefetch() ran on a disabled link whose timer, armed
\* before it was disabled, is still pending.
C7_Witness ==
    /\ CalledHandlePrefetch(lastEvent)
    /\ props.disabled
    /\ Pending # {}

\* C8: isPrefetched is true only when some dispatch returned true (a
\* failed dispatch is never recorded as success, neither at once nor by a
\* later render, and leaves no timer pending), and a handlePrefetch() call
\* whose guard passes arms a new pending timer, also after a failed
\* dispatch.
C8_FailureIsRetried ==
    /\ []((isPrefetched \/ "render" \in scheduled) => Succeeded)
    /\ [][(lastEvent'.name = "timer") => Pending' = {}]_vars
    /\ [][(/\ CalledHandlePrefetch(lastEvent')
           /\ normalizePrefetchOptions(props.prefetch).enabled
           /\ ~props.isExternal /\ props.redirection /\ ~props.disabled
           /\ ~isPrefetched)
          => /\ prefetchTimeoutRef' = Len(timers) + 1
             /\ Pending' = {prefetchTimeoutRef'}]_vars

\* C8 witness: a dispatch returned false, a later hover armed a new timer
\* and that one dispatched too.
C8_Witness ==
    /\ Len(timers) = 2
    /\ timers[1].state = "fired" /\ timers[1].result = "false"
    /\ timers[2].state = "fired" /\ timers[2].invoked = 1

\* C9: a call with isExternal = true returns false, throws nothing and
\* performs no effect: no hint, no callback, no router capability.
C9_ExternalIsNoop ==
    [][execIn.isExternal =>
          /\ execOut'.ret = FALSE
          /\ execOut'.threw = FALSE
          /\ execOut'.effects = <<>>
          /\ effects' = effects]_vars

\* C9 witness: an external call with strategy 'custom' and a callback, in a
\* context that carries a router, has returned.
C9_Witness ==
    /\ execPc = "done"
    /\ execIn.isExternal
    /\ execIn.routerType = "custom"
    /\ execIn.customPrefetch = "cb"
    /\ execIn.routerContext = CtxRouter

\* No exception is raised while the two hints are created and registered.
NoHintFault(in) == in.env.domFault = 0 /\ UrlParses(in.url)

\* C10 (as claimed): a 'react-router' call with isExternal = false registers
\* exactly the prefetch hint and the preconnect hint and returns true.
\* Stated here for the calls whose DOM operations all succeed, so that what
\* refutes it is an argument of the call and not the environment.
C10_TwoHintsAlways ==
    [][(/\ execIn.routerType = "react-router"
        /\ ~execIn.isExternal
        /\ execIn.env.domFault = 0) =>
          /\ execOut'.ret = TRUE
          /\ effects' = effects \o <<PrefetchHint(execIn.url),
                                     PreconnectHint(UrlOrigin(execIn.url))>>]_vars

\* C10 (amended): the same, provided no exception is raised while the hints
\* are created and registered; when one is raised the call returns false
\* and has registered at most the prefetch hint.
C10_TwoHintsUnlessFault ==
    [][(execIn.routerType = "react-router" /\ ~execIn.isExternal) =>
          IF NoHintFault(execIn)
          THEN /\ execOut'.ret = TRUE
               /\ execOut'.threw = FALSE
               /\ effects' = effects \o <<PrefetchHint(execIn.url),
                                          PreconnectHint(UrlOrigin(execIn.url))>>
          ELSE /\ execOut'.ret = FALSE
               /\ execOut'.threw = FALSE
               /\ effects' \in {effects, effects \o <<PrefetchHint(execIn.url)>>}]_vars

\* C10 witness: a 'react-router' call on a target of another origin has
\* registered both hints.
C10_Witness ==
    /\ execPc = "done"
    /\ execIn.routerType = "react-router"
    /\ ~execIn.isExternal
    /\ execIn.url = "https://cdn.example.com/app"
    /\ execOut.ret
    /\ Len(execOut.effects) = 2


\* The effects of the step that are hints registered in the document.
HintsOf(es) == SelectSeq(es, LAMBDA e : e.kind = "hint")

\* C11 (as claimed): a 'tanstack-router' call with isExternal = false calls
\* routerContext.router.prefetch alone and returns true when it exists,
\* else calls window.TanStackRouter.router.prefetch and returns true when
\* that exists, else returns false; it registers no hint.
C11_TanStackAlwaysTrue ==
    [][(execIn.routerType = "tanstack-router" /\ ~execIn.isExternal) =>
          /\ execOut'.threw = FALSE
          /\ HintsOf(execOut'.effects) = <<>>
          /\ IF "router.prefetch" \in execIn.routerContext
             THEN /\ execOut'.ret = TRUE
                  /\ effects' = effects \o
                        <<CapabilityCall("routerContext.router.prefetch", execIn.url)>>
             ELSE IF execIn.env.globalRouter
             THEN /\ execOut'.ret = TRUE
                  /\ effects' = effects \o
                        <<CapabilityCall("window.TanStackRouter.router.prefetch", execIn.url)>>
             ELSE execOut'.ret = FALSE]_vars

\* C11 (amended): the same capability is chosen and called with the target
\* and no hint is registered; the result is true unless the capability
\* throws, and then it is false.  With no capability the result is false and
\* only a warning is emitted.
C11_TanStackTrueUnlessThrows ==
    [][(execIn.routerType = "tanstack-router" /\ ~execIn.isExternal) =>
          /\ execOut'.threw = FALSE
          /\ HintsOf(execOut'.effects) = <<>>
          /\ IF "router.prefetch" \in execIn.routerContext
             THEN /\ execOut'.ret = ~execIn.env.capThrows
                  /\ effects' = effects \o
                        <<CapabilityCall("routerContext.router.prefetch", execIn.url)>>
             ELSE IF execIn.env.globalRouter
             THEN /\ execOut'.ret = ~execIn.env.capThrows
                  /\ effects' = effects \o
                        <<CapabilityCall("window.TanStackRouter.router.prefetch", execIn.url)>>
             ELSE /\ execOut'.ret = FALSE
                  /\ effects' = effects \o <<ConsoleWarn>>]_vars

\* C11 witness: both the context router and the global router exist, and
\* the call returned true.
C11_Witness ==
    /\ execPc = "done"
    /\ execIn.routerType = "tanstack-router"
    /\ ~execIn.isExternal
    /\ execIn.routerContext = CtxRouter
    /\ execIn.env.globalRouter
    /\ execOut.ret

\* C12 (as claimed): a 'custom' call with a callback and isExternal = false
\* calls the callback once with the target, registers no hint and returns
\* true.
C12_CustomAlwaysTrue ==
    [][(/\ execIn.routerType = "custom"
        /\ execIn.customPrefetch # "undefined"
        /\ ~execIn.isExternal) =>
          /\ execOut'.ret = TRUE
          /\ execOut'.threw = FALSE
          /\ effects' = effects \o <<CapabilityCall("customPrefetch", execIn.url)>>]_vars

\* C12 (amended): the callback is called once with the target and no hint
\* is registered; the call returns true unless the callback throws, and
\* then the callback's exception leaves executePrefetch.
C12_CustomTrueUnlessThrows ==
    [][(/\ execIn.routerType = "custom"
        /\ execIn.customPrefetch # "undefined"
        /\ ~execIn.isExternal) =>
          /\ effects' = effects \o <<CapabilityCall("customPrefetch", execIn.url)>>
          /\ IF execIn.env.capThrows
             THEN execOut'.threw = TRUE
             ELSE execOut'.threw = FALSE /\ execOut'.ret = TRUE]_vars

\* C12 witness: a 'custom' call with a callback returned true although the
\* DOM was failing and a router was at hand.
C12_Witness ==
    /\ execPc = "done"
    /\ execIn.routerType = "custom"
    /\ execIn.customPrefetch = "cb"
    /\ ~execIn.isExternal
    /\ execIn.env.domFault = 1
    /\ execOut.ret
    /\ Len(execOut.effects) = 1

\* The strategies that fall to the single hint.
SingleHintCase(in) ==
    /\ ~in.isExternal
    /\ \/ in.routerType = "wouter"
       \/ in.routerType \notin {"react-router", "tanstack-router", "wouter", "custom"}
       \/ (in.routerType = "custom" /\ in.customPrefetch = "undefined")

\* C13 (as claimed): 'wouter', an unknown strategy, or 'custom' without a
\* callback registers exactly one rel=prefetch hint, no preconnect hint, and
\* returns true.
C13_SingleHintAlways ==
    [][SingleHintCase(execIn) =>
          /\ execOut'.ret = TRUE
          /\ effects' = effects \o <<PrefetchHint(execIn.url)>>]_vars

\* C13 (amended): the same, provided creating and appending the hint raise
\* no exception; when one is raised the call returns false and no hint is
\* registered.
C13_SingleHintUnlessFault ==
    [][SingleHintCase(execIn) =>
          /\ execOut'.threw = FALSE
          /\ IF execIn.env.domFault \in {1, 2}
             THEN execOut'.ret = FALSE /\ effects' = effects
             ELSE /\ execOut'.ret = TRUE
                  /\ effects' = effects \o <<PrefetchHint(execIn.url)>>]_vars

\* C13 witness: a 'custom' call without a callback registered one hint for
\* a target of another origin.
C13_Witness ==
    /\ execPc = "done"
    /\ execIn.routerType = "custom"
    /\ execIn.customPrefetch = "undefined"
    /\ ~execIn.isExternal
    /\ execIn.url = "https://cdn.example.com/app"
    /\ execOut.ret
    /\ execOut.effects = <<PrefetchHint(execIn.url)>>

\* The call runs the custom callback (outside the try block).
CustomCase(in) ==
    ~in.isExternal /\ in.routerType = "custom" /\ in.customPrefetch # "undefined"

\* An exception is raised inside the try block: by a DOM operation the
\* strategy performs, by the URL constructor, or by the router capability.
RaisedInTry(in) ==
    /\ ~in.isExternal
    /\ ~CustomCase(in)
    /\ IF in.routerType = "react-router"
       THEN in.env.domFault \in 1..4 \/ ~UrlParses(in.url)
       ELSE IF in.routerType = "tanstack-router"
       THEN in.env.capThrows /\ ("router.prefetch" \in in.routerContext \/ in.env.globalRouter)
       ELSE in.env.domFault \in {1, 2}

\* C14 (as claimed): no exception ever leaves executePrefetch.
C14_NeverThrows ==
    [][execOut'.threw = FALSE]_vars

\* C14 (amended): an exception raised while a hint is created or registered
\* or while a router's prefetch capability runs is caught and the call
\* returns false; the only exception that leaves executePrefetch is the one
\* of a throwing customPrefetch callback (strategy 'custom').
C14_CatchesAllButCallback ==
    [][/\ RaisedInTry(execIn) => (execOut'.threw = FALSE /\ execOut'.ret = FALSE)
       /\ execOut'.threw = (CustomCase(execIn) /\ execIn.env.capThrows)]_vars

\* C14 witness: the context router's prefetch threw and the call returned
\* false.
C14_Witness ==
    /\ execPc = "done"
    /\ execIn.routerType = "tanstack-router"
    /\ ~execIn.isExternal
    /\ execIn.routerContext = CtxRouter
    /\ execIn.env.capThrows
    /\ ~execOut.ret /\ ~execOut.threw
    /\ Len(execOut.effects) = 1


\* The defaults as the claim writes them out.
ClaimedDefaults == [enabled |-> TRUE, delay |-> 200, routerType |-> "react-router"]

\* C15: normalizePrefetchOptions(p) is the defaults {enabled: true,
\* delay: 200, routerType: 'react-router'} with enabled = p for a boolean p;
\* the defaults with every field of p overriding and every absent field
\* kept for an object p; exactly the defaults for undefined.  The shared
\* defaults object is the same after every call.
C15_NormalizeMerges ==
    /\ sharedDefaults = ClaimedDefaults
    /\ fnPc = "done" =>
          CASE fnIn.type = "boolean" ->
                  fnOut = [enabled |-> fnIn.value, delay |-> 200,
                           routerType |-> "react-router"]
            [] fnIn.type = "object" ->
                  /\ DOMAIN fnOut = DOMAIN ClaimedDefaults \cup DOMAIN fnIn.fields
                  /\ \A k \in DOMAIN fnOut :
                        IF k \in DOMAIN fnIn.fields
                        THEN fnOut[k] = fnIn.fields[k]
                        ELSE fnOut[k] = ClaimedDefaults[k]
            [] fnIn.type = "undefined" ->
                  fnOut = ClaimedDefaults

\* C15 witness: an object that sets only delay (to 0) and routerType was
\* normalised: enabled came from the defaults.
C15_Witness ==
    /\ fnPc = "done"
    /\ fnIn = PrefetchObj([delay |-> 0, routerType |-> "custom"])
    /\ fnOut = [enabled |-> TRUE, delay |-> 0, routerType |-> "custom"]


\* p begins with t; p contains t; the pattern matches p somewhere.
BeginsWith(p, t) == \E r \in Strs : p = t \o r

Contains(p, t) == \E l \in Strs : \E r \in Strs : p = l \o t \o r

\* The pattern matches p, the match starting at an index in `from`.
PatternMatchesFrom(re, p, from) ==
    \E l \in Strs : \E r \in Strs :
        /\ p = l \o re.lit \o r
        /\ Len(l) \in from
        /\ re.anchorStart => l = <<>>
        /\ re.anchorEnd => r = <<>>

PatternMatches(re, p) == PatternMatchesFrom(re, p, 0..Len(p))

\* The value the claim gives isActive, with `test` deciding mode 'pattern'.
ClaimedIsActive(in, test(_, _)) ==
    CASE in.matchMode = "exact" -> in.pathname = in.url
      [] in.matchMode = "startsWith" -> BeginsWith(in.pathname, in.url)
      [] in.matchMode = "pattern" ->
            IF in.matchPattern.type = "RegExp"
            THEN test(in.matchPattern, in.pathname)
            ELSE FALSE
      [] OTHER -> Contains(in.pathname, in.url)

\* pattern.test(p) as a function of the pattern's flags and lastIndex.
TestFromLastIndex(re, p) ==
    CASE re.flags = "g" -> PatternMatchesFrom(re, p, re.lastIndex..Len(p))
      [] re.flags = "y" -> PatternMatchesFrom(re, p, {re.lastIndex})
      [] OTHER -> PatternMatches(re, p)

\* C16 (as claimed): isActive(p, t, mode, pattern) is p = t for 'exact',
\* p begins with t for 'startsWith', p contains t for 'includes', whether
\* the pattern matches p for 'pattern' (false without a pattern), and the
\* 'includes' result for an omitted or unknown mode; it never raises.
C16_IsActiveByMode ==
    [][(fnPc = "ready" /\ fnPc' = "done") =>
          /\ fnOut'.threw = FALSE
          /\ fnOut'.ret = ClaimedIsActive(fnIn, PatternMatches)]_vars

\* C16 (amended): the same, with mode 'pattern' giving pattern.test(p):
\* whether the pattern matches p for a pattern without the g or y flag, and
\* for a pattern with the g (y) flag whether it matches p at or after
\* (exactly at) pattern.lastIndex as earlier calls left it.
C16_IsActiveByModeAndTest ==
    [][(fnPc = "ready" /\ fnPc' = "done") =>
          /\ fnOut'.threw = FALSE
          /\ fnOut'.ret = ClaimedIsActive(fnIn, TestFromLastIndex)]_vars

\* C16 witness: a mode outside the four was answered as 'includes': the
\* target lies inside the path, not at its start.
C16_Witness ==
    /\ fnPc = "done"
    /\ fnIn.matchMode = "fuzzy"
    /\ fnIn.url # <<>>
    /\ ~startsWith(fnIn.pathname, fnIn.url)
    /\ fnOut.ret


\* A NavPlus render that produced a link, with a current location at hand.
LocationAvailable(in) ==
    LET loc == ResolvedLocation(in.props, in.context) IN
    loc.type = "object" /\ loc.pathname # <<>>

CurrentPath(in) == ResolvedLocation(in.props, in.context).pathname

RenderedNavPlus ==
    fnPc = "done" /\ fnIn.component = "NavPlus" /\ fnIn.props.to # <<>>

\* The link's active state is the result of the one predicate call made.
DecidedByPredicate(in, out) ==
    /\ Len(out.eval.calls) = 1
    /\ out.eval.calls[1].fn = "isActiveFunc"
    /\ out.eval.calls[1].pathname = CurrentPath(in)
    /\ IF in.props.isActiveFunc = "throws"
       THEN out.eval.threw
       ELSE /\ ~out.eval.threw
            /\ out.active = PredicateValue(in.props.isActiveFunc,
                                           out.eval.calls[1].pathname,
                                           out.eval.calls[1].url)

\* C17 (as claimed): with a location available, a supplied isActiveFunc
\* decides the active state whatever matchMode and matchPattern are;
\* otherwise the state is isActive(pathname, customActiveUrl if supplied
\* else to, matchMode, matchPattern).
C17_ActiveBySuppliedUrl ==
    (RenderedNavPlus /\ LocationAvailable(fnIn)) =>
        IF fnIn.props.isActiveFunc # "undefined"
        THEN DecidedByPredicate(fnIn, fnOut)
        ELSE fnOut.active =
                isActive(CurrentPath(fnIn),
                         IF fnIn.props.customActiveUrl.type = "string"
                         THEN fnIn.props.customActiveUrl.value
                         ELSE fnIn.props.to,
                         fnIn.props.matchMode, fnIn.props.matchPattern).ret

\* The target useIsActive matches against: customActiveUrl when it is a
\* non-empty string, else to.
EffectiveTarget(p) ==
    IF p.customActiveUrl.type = "string" /\ Len(p.customActiveUrl.value) > 0
    THEN p.customActiveUrl.value
    ELSE p.to

\* C17 (amended): the same with the target of isActive being
\* customActiveUrl only when it is supplied and not the empty string, else
\* to.
C17_ActiveByNonEmptyUrl ==
    (RenderedNavPlus /\ LocationAvailable(fnIn)) =>
        IF fnIn.props.isActiveFunc # "undefined"
        THEN DecidedByPredicate(fnIn, fnOut)
        ELSE fnOut.active =
                isActive(CurrentPath(fnIn), EffectiveTarget(fnIn.props),
                         fnIn.props.matchMode, fnIn.props.matchPattern).ret

\* C17 witness: the predicate said no although the path equals the target
\* under mode 'exact'.
C17_Witness ==
    /\ RenderedNavPlus
    /\ LocationAvailable(fnIn)
    /\ fnIn.props.isActiveFunc = "never"
    /\ fnIn.props.matchMode = "exact"
    /\ fnIn.props.customActiveUrl = Undefined
    /\ CurrentPath(fnIn) = fnIn.props.to
    /\ ~fnOut.active

\* C18: with no location object from the prop or the router context, or
\* one without a pathname, the link is inactive whatever to, matchMode,
\* matchPattern, customActiveUrl and isActiveFunc are; no matcher and no
\* predicate is called, and nothing is thrown.
C18_NoLocationInactive ==
    (fnPc = "done" /\ fnIn.component = "NavPlus" /\ ~LocationAvailable(fnIn)) =>
        /\ fnOut.active = FALSE
        /\ fnOut.eval.calls = <<>>
        /\ fnOut.eval.threw = FALSE

\* C18 witness: the location prop has an empty pathname, the router
\* context has a matching location, the predicate would throw; the link is
\* rendered inactive.
C18_Witness ==
    /\ RenderedNavPlus
    /\ fnIn.props.location = LocationObj(<<>>)
    /\ fnIn.props.routerContext = ContextObj(LocationObj(<<"/", "a">>), "ctx.navigate")
    /\ fnIn.props.to = <<"/", "a">>
    /\ fnIn.props.isActiveFunc = "throws"
    /\ fnOut.rendered
    /\ ~fnOut.active

\* C19 (as documented): a RouterNavLink inside a React Router gets the
\* router's navigate function and the router's location: its active state
\* is that of matching the router's pathname.
C19_RouterNavLinkActive ==
    (/\ fnPc = "done"
     /\ fnIn.component = "RouterNavLink"
     /\ fnIn.router.type = "object"
     /\ fnIn.props.to # <<>>
     /\ fnIn.props.isActiveFunc = "undefined"
     /\ fnIn.props.customActiveUrl = Undefined) =>
        /\ fnOut.navigate = "useNavigate"
        /\ fnOut.active =
              isActive(fnIn.router.pathname, fnIn.props.to,
                       fnIn.props.matchMode, fnIn.props.matchPattern).ret


\* The prefetch prop is true or an options object that does not set enabled.
PrefetchOnByProp(p) ==
    \/ p.prefetch = PrefetchBool(TRUE)
    \/ (p.prefetch.type = "object" /\ "enabled" \notin DOMAIN p.prefetch.fields)

\* C20: a link whose prefetch prop is omitted never has a timer and never
\* records a dispatch, whatever pointer events arrive; on a link with
\* prefetch = true or an options object without `enabled`, a pointer-enter
\* arms a prefetch timer (the link being internal, redirecting, enabled and
\* not yet prefetched).
C20_OmittedPrefetchIsOff ==
    [][/\ props.prefetch = PrefetchUndefined =>
            (timers' = <<>> /\ prefetchTimeoutRef' = 0 /\ isPrefetched' = FALSE)
       /\ (/\ CalledHandlePrefetch(lastEvent')
           /\ PrefetchOnByProp(props)
           /\ ~props.isExternal /\ props.redirection /\ ~props.disabled
           /\ ~isPrefetched)
          => /\ Len(timers') = Len(timers) + 1
             /\ timers'[Len(timers')].state = "pending"
             /\ prefetchTimeoutRef' = Len(timers')]_vars

\* C20 witness: a link with an options object that sets only the delay was
\* hovered, its timer fired and the dispatch was recorded.
C20_Witness ==
    /\ props.prefetch = PrefetchObj([delay |-> 500])
    /\ \E i \in Fired : timers[i].invoked = 1
    /\ isPrefetched


\* Did the last event run navigateWithDelay?
CalledNavigateWithDelay(e) == "navigateWithDelay" \in e.calls

\* C21: at most one navigation timer is pending and none after unmount;
\* navigateWithDelay leaves no earlier timer pending, whether it arms a new
\* one or navigates at once; navigate is called only while the link is
\* mounted and never by the timer of a request that a later one replaced.
C21_NavigationTimerDiscipline ==
    /\ [](Cardinality(NavPending) <= 1 /\ (~mounted => NavPending = {}))
    /\ [][/\ navCalls' # navCalls => mounted
          /\ CalledNavigateWithDelay(lastEvent') =>
                \A i \in DOMAIN navTimers : navTimers'[i].state # "pending"
          /\ \A i \in DOMAIN navTimers :
                (navTimers[i].state = "pending" /\ navTimers'[i].state = "fired")
                    => ~navTimers[i].superseded]_vars

\* The link is disabled or its redirection is false.
NavigationOff(p) == p.disabled \/ ~p.redirection

\* C22: a click or a pointer-enter on a link that is disabled or whose
\* redirection is false neither calls navigate nor arms or clears a
\* navigation timer, for both triggers and every delay, and a click on a
\* disabled link does not call the caller's onClick; so a link that is
\* disabled or not redirecting throughout never calls navigate.
C22_NoNavigationWhenOff ==
    /\ [][(NavigationOff(props) /\ lastEvent'.name \in {"click", "pointerenter"})
            => /\ navCalls' = navCalls
               /\ navTimers' = navTimers
               /\ navigationTimeoutRef' = navigationTimeoutRef
               /\ (props.disabled /\ lastEvent'.name = "click")
                     => "props.onClick" \notin lastEvent'.calls]_vars
    /\ ([]NavigationOff(props)) => [](navCalls = <<>> /\ navTimers = <<>>)

\* C22 witness: a disabled link triggered by click, with a navigate
\* function and an onClick handler, was clicked: handleClick ran and
\* returned.
C22_Witness ==
    /\ props.disabled
    /\ props.triggerEvent = "click"
    /\ props.navigate # "undefined"
    /\ props.onClick = "handler"
    /\ lastEvent = Event("click", {"handleClick", "e.preventDefault"})
    /\ navCalls = <<>>


\* C26: a hover that ended before the navigation delay elapsed
\* does not navigate: the timer that was pending at a pointer-leave never
\* calls navigate.
C26_LeaveCancelsNavigation ==
    [][\A i \in DOMAIN navTimers :
          (navTimers[i].state = "pending" /\ navTimers'[i].state = "fired")
              => ~navTimers[i].left]_vars

\* C28: a link with isExternal = true never calls navigate,
\* whatever clicks and pointer-enters arrive and whatever the trigger.
C28_ExternalNeverNavigates ==
    props.isExternal => (navCalls = <<>> /\ navTimers = <<>>)


\* The link's own prefetch prop as the fields it sets.
OwnPrefetchFields(prefetch) ==
    CASE prefetch.type = "boolean" -> [enabled |-> prefetch.value]
      [] prefetch.type = "object" -> prefetch.fields
      [] OTHER -> EmptyObject

\* C23: the effective enabled / delay / routerType of a link under a
\* NavLinkProvider are its own prefetch prop merged over the provider's
\* prefetchDefaults, merged over the library defaults.
C23_ProviderDefaultsApply ==
    fnPc = "done" =>
        LET own == OwnPrefetchFields(fnIn.prefetch)
            provided == fnOut.context.prefetchDefaults
        IN \A k \in {"enabled", "delay", "routerType"} :
              fnOut.options[k] = IF k \in DOMAIN own THEN own[k] ELSE provided[k]


\* C24: cleanUrl returns its input when the input starts with '/', the
\* input with '/' in front otherwise, and '/' for an empty or missing
\* input; every result starts with '/', and cleaning a result gives that
\* result again.
C24_CleanUrlIdempotent ==
    fnPc = "done" =>
        /\ IF fnIn.url.type = "undefined" THEN fnOut = <<"/">>
           ELSE IF Len(fnIn.url.value) = 0 THEN fnOut = <<"/">>
           ELSE IF Head(fnIn.url.value) = "/" THEN fnOut = fnIn.url.value
           ELSE /\ Len(fnOut) = Len(fnIn.url.value) + 1
                /\ Head(fnOut) = "/"
                /\ Tail(fnOut) = fnIn.url.value
        /\ Len(fnOut) > 0 /\ Head(fnOut) = "/"
        /\ fnIn.fed => fnOut = fnIn.url.value

\* C24 witness: a string without a leading slash was cleaned, and the
\* result was cleaned again.
C24_Witness ==
    /\ fnPc = "done"
    /\ fnIn.fed
    /\ fnOut = <<"/", "a", "/">>


\* C25: the timer handlePrefetch() arms has the delay of the caller's
\* configuration for every supplied delay >= 0 (0 included), and 200 ms
\* when no delay is supplied.
C25_TimerHasConfiguredDelay ==
    [][(CalledHandlePrefetch(lastEvent') /\ Len(timers') = Len(timers) + 1)
          => timers'[Len(timers')].closure.delay =
                IF props.prefetch.type = "object"
                      /\ "delay" \in DOMAIN props.prefetch.fields
                THEN props.prefetch.fields.delay
                ELSE 200]_vars


\* C27: a supplied isActiveFunc is called once, with the current pathname
\* and the link's own target `to`, whether or not customActiveUrl is
\* supplied too.
C27_PredicateGetsOwnTarget ==
    (RenderedNavPlus /\ LocationAvailable(fnIn)
        /\ fnIn.props.isActiveFunc # "undefined") =>
        fnOut.eval.calls =
            <<MatcherCall("isActiveFunc", CurrentPath(fnIn), fnIn.props.to)>>


\* What a dispatch with the captured values c performs in environment env.
DispatchOf(c, env) ==
    executePrefetch(c.to, c.routerType, c.isExternal, c.routerContext,
                    c.customPrefetch, env).effects

\* The strategy and the callback a render's prefetch prop selects.
StrategyOf(p) ==
    IF p.prefetch.type = "object" /\ "routerType" \in DOMAIN p.prefetch.fields
    THEN p.prefetch.fields.routerType ELSE "react-router"

CallbackOf(p) ==
    IF p.prefetch.type = "object" /\ "customPrefetch" \in DOMAIN p.prefetch.fields
    THEN p.prefetch.fields.customPrefetch ELSE "undefined"

\* C29: a timer handlePrefetch() arms carries the target, strategy, router
\* context and callback of that render; a later render, whatever prop it
\* changes, leaves every timer and the timer reference as they are; and a
\* timer that fires performs the dispatch of the values it carried when it
\* was pending, whatever the props of the current render are.
C29_DispatchOfArmingRender ==
    [][ /\ lastEvent'.name = "render" =>
              /\ timers' = timers
              /\ prefetchTimeoutRef' = prefetchTimeoutRef
        /\ (CalledHandlePrefetch(lastEvent') /\ Len(timers') = Len(timers) + 1) =>
              LET c == timers'[Len(timers')].closure IN
              /\ c.to = props.to
              /\ c.routerType = StrategyOf(props)
              /\ c.routerContext = props.routerContext
              /\ c.customPrefetch = CallbackOf(props)
        /\ \A id \in Pending :
              (Len(timers') = Len(timers) /\ timers'[id].state = "fired") =>
                  \E env \in DispatchEnvs :
                      effects' = effects \o DispatchOf(timers[id].closure, env)
      ]_vars

\* C29 witness: a timer has just dispatched for a target the link no
\* longer has while the link is disabled.
C29_Witness ==
    /\ lastEvent.name = "timer"
    /\ props.disabled
    /\ effects # <<>>
    /\ effects[1].href \in LinkTargets \ {props.to}

\* C30: isPrefetched never goes back to false, and once a dispatch has
\* succeeded no timer is armed and nothing more is dispatched, whatever
\* the target has become.
C30_PrefetchedOnceForGood ==
    /\ [][isPrefetched => isPrefetched']_vars
    /\ [][Succeeded => (Len(timers') = Len(timers) /\ effects' = effects)]_vars

=============================================================================
